---- MODULE Spec2Model ----
(***************************************************************************)
(* Model of scripts/daily-summary.ts: the commit collector, the diff       *)
(* chunker and the three-tier (chunk -> commit -> day) summarisation run.  *)
(*                                                                         *)
(* Texts are sequences.  A diff text is a sequence of integers: NL is a    *)
(* whitespace character, HDR stands for one "diff --git ..." header line,  *)
(* any positive integer is an ordinary character.  A summary text is a     *)
(* sequence of tokens [t, n]: the reply of completion call n, a            *)
(* placeholder, a label or a separator literal of the script.              *)
(***************************************************************************)
EXTENDS Integers, Sequences, FiniteSets, TLC

VARIABLES
    \* ---- chunker harness (chunkBySize applied to drawn inputs) ----
    packParts,      \* the units handed to chunkBySize
    packLimit,      \* the limit handed to chunkBySize
    packOut,        \* the chunks it returned
    packDone,       \* whether chunkBySize has been applied
    \* ---- environment of one run of the script ----
    remoteBranches, \* the origin/* branches, as git for-each-ref lists them
    gitLogOf,       \* branch -> its commits of the window, oldest first
    allShasOrdered, \* the commits of the window over all refs, oldest first
    perBranchLimit, \* PER_BRANCH_LIMIT
    webhookConfigured, \* whether LARK_WEBHOOK_URL is set
    \* ---- the script's own state ----
    pc,             \* position of the script
    bi,             \* branches listed so far (loop of lines 75-83)
    branchToCommits,
    shaToBranches,
    commitShas,
    commitMetas,
    ci,             \* commits taken so far by the loop of line 348
    rawDiffOf,      \* sha -> what git diff printed for the commit (line 153)
    chunks,
    chunkI,         \* the chunk loop index i of line 363
    partSummaries,
    perCommitFinal,
    daily,
    calls,          \* the prompts handed to chat(), in the order issued
    results,        \* call number -> "ok" | "empty" | "fail", once settled
    inflight,       \* the call numbers awaiting their response
    postToLarkCalls, \* invocations of postToLark
    posts,          \* webhook requests issued by postToLark
    postOutcome,    \* "none", then "printed", "sent" or "error"
    exitCode        \* -1 while running, then the process exit code

packVars == <<packParts, packLimit, packOut, packDone>>

envVars == <<remoteBranches, gitLogOf, allShasOrdered, perBranchLimit,
             webhookConfigured>>

collVars == <<bi, branchToCommits, shaToBranches, commitShas, commitMetas>>

redVars == <<ci, rawDiffOf, chunks, chunkI, partSummaries, perCommitFinal, daily>>

ioVars == <<calls, results, inflight, postToLarkCalls, posts, postOutcome>>

vars == <<packParts, packLimit, packOut, packDone,
          remoteBranches, gitLogOf, allShasOrdered, perBranchLimit,
          webhookConfigured,
          pc, bi, branchToCommits, shaToBranches, commitShas, commitMetas,
          ci, rawDiffOf, chunks, chunkI, partSummaries, perCommitFinal, daily,
          calls, results, inflight, postToLarkCalls, posts, postOutcome,
          exitCode>>

\* ------------------------------------------------------------------------
\* Bounds of the model
\* ------------------------------------------------------------------------
MaxUnits == 3       \* units per chunkBySize input
MaxUnitLen == 5     \* characters per unit (besides the long example unit)
MaxLimit == 4       \* chunk limits tried (besides the example limit)
MaxCommits == 3     \* commits of the window in the collector harness
MaxCap == 3         \* largest PER_BRANCH_LIMIT tried in the collector harness
MaxRunCommits == 2  \* commits of the window in a full run
MaxFiles == 2       \* files changed by one commit in a full run

\* ------------------------------------------------------------------------
\* Text helpers
\* ------------------------------------------------------------------------
NL == 0             \* a newline, the only whitespace of the model
HDR == -1           \* one "diff --git ..." header line

Min(a, b) == IF a < b THEN a ELSE b
Max(a, b) == IF a > b THEN a ELSE b

\* "\n\n", the separator chunkBySize puts between two units of a chunk
Sep == <<NL, NL>>

\* String.prototype.slice(from, to) for 0 <= from <= to, 0-based, to exclusive
StrSlice(s, from, to) == SubSeq(s, from + 1, Min(to, Len(s)))

RECURSIVE Flatten(_)
Flatten(ss) == IF ss = <<>> THEN <<>> ELSE Head(ss) \o Flatten(Tail(ss))

RECURSIVE SumLen(_)
SumLen(ss) == IF ss = <<>> THEN 0 ELSE Len(Head(ss)) + SumLen(Tail(ss))

\* ------------------------------------------------------------------------
\* chunkBySize (daily-summary.ts 165-186)
\* ------------------------------------------------------------------------
\* the inner for loop: out.push(p.slice(i, i + limit)) for i = 0, limit, ...
RECURSIVE SliceLoop(_, _, _)
SliceLoop(p, limit, i) ==
    IF i < Len(p)
    THEN <<StrSlice(p, i, i + limit)>> \o SliceLoop(p, limit, i + limit)
    ELSE <<>>

\* ChunkStep with the separator left out of the length test
ChunkStepNoSep(out, buf, p, limit) ==
    LET candidate == IF buf # <<>> THEN buf \o Sep \o p ELSE p
        flushed == IF buf # <<>> THEN Append(out, buf) ELSE out
    IN  IF Len(buf) + Len(p) > limit
        THEN IF Len(p) > limit
             THEN <<flushed \o SliceLoop(p, limit, 0), <<>>>>
             ELSE <<flushed, p>>
        ELSE <<out, candidate>>

\* ChunkStep flushing already when the candidate reaches the limit
ChunkStepGe(out, buf, p, limit) ==
    LET candidate == IF buf # <<>> THEN buf \o Sep \o p ELSE p
        flushed == IF buf # <<>> THEN Append(out, buf) ELSE out
    IN  IF Len(candidate) >= limit
        THEN IF Len(p) > limit
             THEN <<flushed \o SliceLoop(p, limit, 0), <<>>>>
             ELSE <<flushed, p>>
        ELSE <<out, candidate>>

\* one iteration of the outer loop on unit p: the new <<out, buf>>
ChunkStep(out, buf, p, limit) ==
    LET candidate == IF buf # <<>> THEN buf \o Sep \o p ELSE p
        flushed == IF buf # <<>> THEN Append(out, buf) ELSE out
    IN  IF Len(candidate) > limit
        THEN IF Len(p) > limit
             THEN <<flushed \o SliceLoop(p, limit, 0), <<>>>>
             ELSE <<flushed, p>>
        ELSE <<out, candidate>>

RECURSIVE ChunkLoop(_, _, _, _)
ChunkLoop(parts, limit, out, buf) ==
    IF parts = <<>>
    THEN IF buf # <<>> THEN Append(out, buf) ELSE out
    ELSE LET st == ChunkStep(out, buf, Head(parts), limit)
         IN  ChunkLoop(Tail(parts), limit, st[1], st[2])

chunkBySize(parts, limit) == ChunkLoop(parts, limit, <<>>, <<>>)

\* ------------------------------------------------------------------------
\* sh, getDiff and splitPatchByFile (daily-summary.ts 33-38, 149-163)
\* ------------------------------------------------------------------------
RECURSIVE TrimLeft(_)
TrimLeft(s) == IF s # <<>> /\ Head(s) = NL THEN TrimLeft(Tail(s)) ELSE s

RECURSIVE TrimRight(_)
TrimRight(s) ==
    IF s # <<>> /\ s[Len(s)] = NL THEN TrimRight(SubSeq(s, 1, Len(s) - 1)) ELSE s

\* String.prototype.trim
Trim(s) == TrimRight(TrimLeft(s))

\* sh(cmd): the command's output, trimmed
sh(output) == Trim(output)

\* getDiff(sha): the trimmed output of `git diff ... || true`
getDiff(output) == sh(output)

\* patch.split(/^diff --git.*$/m): the texts between the header lines
RECURSIVE SplitAtHeaders(_, _)
SplitAtHeaders(patch, cur) ==
    IF patch = <<>> THEN <<cur>>
    ELSE IF Head(patch) = HDR
         THEN <<cur>> \o SplitAtHeaders(Tail(patch), <<>>)
         ELSE SplitAtHeaders(Tail(patch), Append(cur, Head(patch)))

NonEmptyText(t) == t # <<>>

splitPatchByFile(patch) ==
    IF patch = <<>> THEN <<>>
    ELSE LET parts == SplitAtHeaders(patch, <<>>)
         IN  SelectSeq([k \in 1..Len(parts) |-> Trim(parts[k])], NonEmptyText)

\* ------------------------------------------------------------------------
\* Commit collector (daily-summary.ts 74-125)
\* ------------------------------------------------------------------------
\* Array.prototype.slice(start) with one argument
ArraySliceFrom(list, start) ==
    LET k == IF start < 0 THEN Max(Len(list) + start, 0) ELSE Min(start, Len(list))
    IN  SubSeq(list, k + 1, Len(list))

\* list.slice(-PER_BRANCH_LIMIT): -0 is 0, so a limit of 0 slices from the front
TruncateToLimit(list, limit) == ArraySliceFrom(list, 0 - limit)

Range(f) == {f[x] : x \in DOMAIN f}

\* the reverse map of lines 86-92: sha -> the branches holding it, in the
\* order the branches were inserted into branchToCommits
RECURSIVE BranchesHolding(_, _, _)
BranchesHolding(sha, branches, b2c) ==
    IF branches = <<>> THEN <<>>
    ELSE (IF sha \in Range(b2c[Head(branches)]) THEN <<Head(branches)>> ELSE <<>>)
         \o BranchesHolding(sha, Tail(branches), b2c)

BuildReverseMap(branches, b2c) ==
    LET shas == UNION {Range(b2c[branches[k]]) : k \in 1..Len(branches)}
    IN  [sha \in shas |-> BranchesHolding(sha, branches, b2c)]

\* FilterSeen without the test of line 105
RECURSIVE FilterSeenKeepsOrphans(_, _, _)
FilterSeenKeepsOrphans(shas, seen, s2b) ==
    IF shas = <<>> THEN <<>>
    ELSE LET sha == Head(shas)
         IN  IF sha \in seen THEN FilterSeenKeepsOrphans(Tail(shas), seen, s2b)
             ELSE <<sha>> \o FilterSeenKeepsOrphans(Tail(shas), seen \cup {sha}, s2b)

\* allShasOrdered.filter(...) of lines 102-108
RECURSIVE FilterSeen(_, _, _)
FilterSeen(shas, seen, s2b) ==
    IF shas = <<>> THEN <<>>
    ELSE LET sha == Head(shas)
         IN  IF sha \in seen THEN FilterSeen(Tail(shas), seen, s2b)
             ELSE IF sha \notin DOMAIN s2b THEN FilterSeen(Tail(shas), seen, s2b)
             ELSE <<sha>> \o FilterSeen(Tail(shas), seen \cup {sha}, s2b)

\* Array.prototype.sort on branch names; a branch is the rank of its name
RECURSIVE SortAsc(_)
SortAsc(S) ==
    IF S = {} THEN <<>>
    ELSE LET m == CHOOSE x \in S : \A y \in S : x <= y
         IN  <<m>> \o SortAsc(S \ {m})

\* one CommitMeta; title, author and url are functions of the sha alone
MakeMeta(sha, s2b) ==
    [sha |-> sha,
     branches |-> IF sha \in DOMAIN s2b THEN SortAsc(Range(s2b[sha])) ELSE <<>>]

\* lines 75-83, one branch per step
ListBranchCommits ==
    /\ pc = "listBranches"
    /\ bi < Len(remoteBranches)
    /\ LET rb == remoteBranches[bi + 1]
       IN  branchToCommits' =
               [b \in DOMAIN branchToCommits \cup {rb} |->
                   IF b = rb THEN TruncateToLimit(gitLogOf[rb], perBranchLimit)
                   ELSE branchToCommits[b]]
    /\ bi' = bi + 1
    /\ UNCHANGED <<pc, shaToBranches, commitShas, commitMetas, exitCode>>
    /\ UNCHANGED <<packVars, envVars, redVars, ioVars>>

\* lines 86-92
BuildShaToBranches ==
    /\ pc = "listBranches"
    /\ bi = Len(remoteBranches)
    /\ shaToBranches' = BuildReverseMap(remoteBranches, branchToCommits)
    /\ pc' = "filter"
    /\ UNCHANGED <<bi, branchToCommits, commitShas, commitMetas, exitCode>>
    /\ UNCHANGED <<packVars, envVars, redVars, ioVars>>

\* FilterCommits without the empty-result exit
FilterCommitsNoExit ==
    /\ pc = "filter"
    /\ LET kept == FilterSeen(allShasOrdered, {}, shaToBranches)
       IN  /\ commitShas' = kept
           /\ pc' = "nextCommit"
           /\ exitCode' = exitCode
           /\ commitMetas' =
                  [k \in 1..Len(kept) |-> MakeMeta(kept[k], shaToBranches)]
    /\ UNCHANGED <<bi, branchToCommits, shaToBranches>>
    /\ UNCHANGED <<packVars, envVars, redVars, ioVars>>

\* lines 95-125: the filtered global order, the empty-result exit, the metas
FilterCommits ==
    /\ pc = "filter"
    /\ LET kept == FilterSeen(allShasOrdered, {}, shaToBranches)
       IN  /\ commitShas' = kept
           /\ IF Len(kept) = 0
              THEN /\ pc' = "exited"
                   /\ exitCode' = 0
                   /\ commitMetas' = <<>>
              ELSE /\ pc' = "nextCommit"
                   /\ exitCode' = exitCode
                   /\ commitMetas' =
                          [k \in 1..Len(kept) |-> MakeMeta(kept[k], shaToBranches)]
    /\ UNCHANGED <<bi, branchToCommits, shaToBranches>>
    /\ UNCHANGED <<packVars, envVars, redVars, ioVars>>

\* ------------------------------------------------------------------------
\* Summary texts and prompts (daily-summary.ts 248-315, 354, 367-369, 378, 396-403)
\* ------------------------------------------------------------------------
DIFF_CHUNK_MAX_CHARS == 3

Tok(t, n) == [t |-> t, n |-> n]

\* Array.prototype.join on texts
RECURSIVE JoinWith(_, _)
JoinWith(sep, texts) ==
    IF texts = <<>> THEN <<>>
    ELSE IF Len(texts) = 1 THEN texts[1]
    ELSE texts[1] \o sep \o JoinWith(sep, Tail(texts))

BlankLine == <<Tok("blankLine", 0)>>      \* "\n\n"
RuleLine == <<Tok("ruleLine", 0)>>        \* "\n\n---\n\n"

\* the content chat() resolves with for call number k; where the script
\* tests it for emptiness (line 367) the empty content is a case of its own
Reply(k) == <<Tok("reply", k)>>

\* the fixed summary of a commit without a diff (line 354)
NoChangeText == <<Tok("noChange", 0)>>

\* the text standing for an empty chunk summary (line 367)
PartEmptyText(n) == <<Tok("partEmpty", n)>>

\* the text standing for a failed chunk call (line 369); k names the error
PartFailedText(n, k) == <<Tok("partFailed", n), Tok("error", k)>>

\* the prompt of one chunk of a commit
commitChunkPrompt(meta, partIdx, total, patch) ==
    [tier |-> "chunk", sha |-> meta.sha, idx |-> partIdx, total |-> total,
     body |-> patch]

\* the labelled chunk summaries of the merge prompt (line 276)
LabelledJoin(parts) ==
    JoinWith(BlankLine, [k \in 1..Len(parts) |-> <<Tok("label", k)>> \o parts[k]])

commitMergePrompt(meta, parts) ==
    [tier |-> "commit", sha |-> meta.sha, idx |-> 0, total |-> Len(parts),
     body |-> LabelledJoin(parts)]

\* one entry of the daily prompt: "[sha] title - author - branches" and the summary
DailyItem(it) == <<Tok("item", it.meta.sha)>> \o it.summary

dailyMergePrompt(items) ==
    [tier |-> "daily", sha |-> 0, idx |-> 0, total |-> Len(items),
     body |-> JoinWith(RuleLine, [k \in 1..Len(items) |-> DailyItem(items[k])])]

\* MergeFallback leaving out the placeholders of failed chunks
MergeFallbackDropsFailed(parts) ==
    LET Succeeded(t) == t[1].t # "partFailed"
    IN  JoinWith(BlankLine, SelectSeq(parts, Succeeded))

\* the fallback of a failed commit merge (line 378)
MergeFallback(parts) == JoinWith(BlankLine, parts)

\* the fallback of a failed daily merge (lines 396-403)
DailyFallback(items) ==
    <<Tok("dailyFailed", 0)>> \o
    JoinWith(RuleLine,
             [k \in 1..Len(items) |-> <<Tok("fallbackItem", items[k].meta.sha)>>
                                          \o items[k].summary])

\* ------------------------------------------------------------------------
\* The main flow (daily-summary.ts 345-412)
\* ------------------------------------------------------------------------
\* unit number k of the given length: characters 100k+1, 100k+2, ...
UnitText(k, len) == [j \in 1..len |-> 100 * k + j]

\* what git diff prints for a commit touching the files 1..f: per file a
\* header line and a hunk text of two characters
RECURSIVE PatchOfFiles(_)
PatchOfFiles(f) ==
    IF f = 0 THEN <<>>
    ELSE PatchOfFiles(f - 1) \o <<HDR, NL>> \o UnitText(f, 2) \o <<NL>>

\* nothing, a lone newline, or a patch
RawDiffs == {<<>>, <<NL>>} \cup {PatchOfFiles(f) : f \in 1..MaxFiles}

CurrentMeta == commitMetas[ci + 1]

\* chat() calls are numbered in the order issued
Issue(prompt) ==
    /\ calls' = Append(calls, prompt)
    /\ inflight' = inflight \cup {Len(calls) + 1}
    /\ UNCHANGED <<results, postToLarkCalls, posts, postOutcome>>

Settle(k, outcome) ==
    /\ results' = results @@ (k :> outcome)
    /\ inflight' = inflight \ {k}
    /\ UNCHANGED <<calls, postToLarkCalls, posts, postOutcome>>

\* TakeCommit skipping a commit without a diff altogether
TakeCommitSkipsEmpty ==
    /\ pc = "nextCommit"
    /\ ci < Len(commitMetas)
    /\ \E output \in RawDiffs :
          LET fullPatch == getDiff(output)
          IN  /\ rawDiffOf' = rawDiffOf @@ (CurrentMeta.sha :> output)
              /\ IF fullPatch = <<>> \/ Trim(fullPatch) = <<>>
                 THEN /\ ci' = ci + 1
                      /\ UNCHANGED <<pc, chunks, chunkI, partSummaries, perCommitFinal>>
                 ELSE /\ chunks' = chunkBySize(splitPatchByFile(fullPatch),
                                               DIFF_CHUNK_MAX_CHARS)
                      /\ partSummaries' = <<>>
                      /\ chunkI' = 0
                      /\ pc' = "chunkLoop"
                      /\ UNCHANGED <<ci, perCommitFinal>>
    /\ UNCHANGED <<daily, exitCode>>
    /\ UNCHANGED <<packVars, envVars, collVars, ioVars>>

\* lines 348-362: take the next commit, fetch and chunk its diff
TakeCommit ==
    /\ pc = "nextCommit"
    /\ ci < Len(commitMetas)
    /\ \E output \in RawDiffs :
          LET fullPatch == getDiff(output)
          IN  /\ rawDiffOf' = rawDiffOf @@ (CurrentMeta.sha :> output)
              /\ IF fullPatch = <<>> \/ Trim(fullPatch) = <<>>
                 THEN /\ perCommitFinal' =
                             Append(perCommitFinal,
                                    [meta |-> CurrentMeta, summary |-> NoChangeText])
                      /\ ci' = ci + 1
                      /\ UNCHANGED <<pc, chunks, chunkI, partSummaries>>
                 ELSE /\ chunks' = chunkBySize(splitPatchByFile(fullPatch),
                                               DIFF_CHUNK_MAX_CHARS)
                      /\ partSummaries' = <<>>
                      /\ chunkI' = 0
                      /\ pc' = "chunkLoop"
                      /\ UNCHANGED <<ci, perCommitFinal>>
    /\ UNCHANGED <<daily, exitCode>>
    /\ UNCHANGED <<packVars, envVars, collVars, ioVars>>

\* lines 363-366: the chat() call of chunk i + 1
ChunkCall ==
    /\ pc = "chunkLoop"
    /\ chunkI < Len(chunks)
    /\ Issue(commitChunkPrompt(CurrentMeta, chunkI + 1, Len(chunks),
                               chunks[chunkI + 1]))
    /\ pc' = "awaitChunk"
    /\ UNCHANGED <<exitCode>>
    /\ UNCHANGED <<packVars, envVars, collVars, redVars>>

\* line 367: the call resolved, with some content or with none
ChunkResolve ==
    /\ pc = "awaitChunk"
    /\ \E k \in inflight, outcome \in {"ok", "empty"} :
          LET sum == IF outcome = "ok" THEN Reply(k) ELSE <<>>
          IN  /\ Settle(k, outcome)
              /\ partSummaries' =
                     Append(partSummaries,
                            IF sum # <<>> THEN sum ELSE PartEmptyText(chunkI + 1))
    /\ chunkI' = chunkI + 1
    /\ pc' = "chunkLoop"
    /\ UNCHANGED <<ci, rawDiffOf, chunks, perCommitFinal, daily, exitCode>>
    /\ UNCHANGED <<packVars, envVars, collVars>>

\* ChunkReject leaving the chunk loop at the first failure
ChunkRejectAbort ==
    /\ pc = "awaitChunk"
    /\ \E k \in inflight :
          /\ Settle(k, "fail")
          /\ partSummaries' = Append(partSummaries, PartFailedText(chunkI + 1, k))
    /\ chunkI' = Len(chunks)
    /\ pc' = "chunkLoop"
    /\ UNCHANGED <<ci, rawDiffOf, chunks, perCommitFinal, daily, exitCode>>
    /\ UNCHANGED <<packVars, envVars, collVars>>

\* lines 368-370: the call rejected
ChunkReject ==
    /\ pc = "awaitChunk"
    /\ \E k \in inflight :
          /\ Settle(k, "fail")
          /\ partSummaries' = Append(partSummaries, PartFailedText(chunkI + 1, k))
    /\ chunkI' = chunkI + 1
    /\ pc' = "chunkLoop"
    /\ UNCHANGED <<ci, rawDiffOf, chunks, perCommitFinal, daily, exitCode>>
    /\ UNCHANGED <<packVars, envVars, collVars>>

\* MergeCall not waiting for the end of the chunk loop
MergeCallEarly ==
    /\ pc = "chunkLoop"
    /\ Issue(commitMergePrompt(CurrentMeta, partSummaries))
    /\ pc' = "awaitMerge"
    /\ UNCHANGED <<exitCode>>
    /\ UNCHANGED <<packVars, envVars, collVars, redVars>>

\* lines 374-376: the chat() call merging the chunk summaries of the commit
MergeCall ==
    /\ pc = "chunkLoop"
    /\ ~(chunkI < Len(chunks))
    /\ Issue(commitMergePrompt(CurrentMeta, partSummaries))
    /\ pc' = "awaitMerge"
    /\ UNCHANGED <<exitCode>>
    /\ UNCHANGED <<packVars, envVars, collVars, redVars>>

\* lines 376, 381: merged is whatever chat() resolved with
MergeResolve ==
    /\ pc = "awaitMerge"
    /\ \E k \in inflight :
          LET merged == Reply(k)
          IN  /\ Settle(k, "ok")
              /\ perCommitFinal' =
                     Append(perCommitFinal, [meta |-> CurrentMeta, summary |-> merged])
    /\ ci' = ci + 1
    /\ pc' = "nextCommit"
    /\ UNCHANGED <<rawDiffOf, chunks, chunkI, partSummaries, daily, exitCode>>
    /\ UNCHANGED <<packVars, envVars, collVars>>

\* lines 377-381: merged is the chunk summaries joined by blank lines
MergeReject ==
    /\ pc = "awaitMerge"
    /\ \E k \in inflight :
          /\ Settle(k, "fail")
          /\ perCommitFinal' =
                 Append(perCommitFinal,
                        [meta |-> CurrentMeta, summary |-> MergeFallback(partSummaries)])
    /\ ci' = ci + 1
    /\ pc' = "nextCommit"
    /\ UNCHANGED <<rawDiffOf, chunks, chunkI, partSummaries, daily, exitCode>>
    /\ UNCHANGED <<packVars, envVars, collVars>>

\* lines 390-394: the chat() call of the daily report
DailyCall ==
    /\ pc = "nextCommit"
    /\ ~(ci < Len(commitMetas))
    /\ Issue(dailyMergePrompt(perCommitFinal))
    /\ pc' = "awaitDaily"
    /\ UNCHANGED <<exitCode>>
    /\ UNCHANGED <<packVars, envVars, collVars, redVars>>

DailyResolve ==
    /\ pc = "awaitDaily"
    /\ \E k \in inflight :
          /\ Settle(k, "ok")
          /\ daily' = Reply(k)
    /\ pc' = "post"
    /\ UNCHANGED <<ci, rawDiffOf, chunks, chunkI, partSummaries, perCommitFinal, exitCode>>
    /\ UNCHANGED <<packVars, envVars, collVars>>

\* lines 395-404
DailyReject ==
    /\ pc = "awaitDaily"
    /\ \E k \in inflight :
          /\ Settle(k, "fail")
          /\ daily' = DailyFallback(perCommitFinal)
    /\ pc' = "post"
    /\ UNCHANGED <<ci, rawDiffOf, chunks, chunkI, partSummaries, perCommitFinal, exitCode>>
    /\ UNCHANGED <<packVars, envVars, collVars>>

\* postToLark without a webhook (lines 319-322), then line 408 and a normal exit
PostPrint ==
    /\ pc = "post"
    /\ ~webhookConfigured
    /\ postToLarkCalls' = postToLarkCalls + 1
    /\ postOutcome' = "printed"
    /\ pc' = "exited"
    /\ exitCode' = 0
    /\ UNCHANGED <<calls, results, inflight, posts>>
    /\ UNCHANGED <<packVars, envVars, collVars, redVars>>

\* postToLark issuing the webhook request (lines 323-341)
PostRequest ==
    /\ pc = "post"
    /\ webhookConfigured
    /\ postToLarkCalls' = postToLarkCalls + 1
    /\ posts' = posts + 1
    /\ pc' = "awaitPost"
    /\ UNCHANGED <<calls, results, inflight, postOutcome, exitCode>>
    /\ UNCHANGED <<packVars, envVars, collVars, redVars>>

\* the response ended (line 335), then line 408 and a normal exit
PostResolve ==
    /\ pc = "awaitPost"
    /\ postOutcome' = "sent"
    /\ pc' = "exited"
    /\ exitCode' = 0
    /\ UNCHANGED <<calls, results, inflight, postToLarkCalls, posts>>
    /\ UNCHANGED <<packVars, envVars, collVars, redVars>>

\* PostReject with the error swallowed
PostRejectSwallowed ==
    /\ pc = "awaitPost"
    /\ postOutcome' = "error"
    /\ pc' = "exited"
    /\ exitCode' = 0
    /\ UNCHANGED <<calls, results, inflight, postToLarkCalls, posts>>
    /\ UNCHANGED <<packVars, envVars, collVars, redVars>>

\* the request errored (line 338): the rejection reaches the catch of
\* lines 409-412, which exits with code 1
PostReject ==
    /\ pc = "awaitPost"
    /\ postOutcome' = "error"
    /\ pc' = "exited"
    /\ exitCode' = 1
    /\ UNCHANGED <<calls, results, inflight, postToLarkCalls, posts>>
    /\ UNCHANGED <<packVars, envVars, collVars, redVars>>

\* ------------------------------------------------------------------------
\* Chunker harness: chunkBySize on every bounded input
\* ------------------------------------------------------------------------
UnitLens == (1..MaxUnitLen) \cup {25}
Limits == (1..MaxLimit) \cup {10}

LenVectors == UNION {[1..n -> UnitLens] : n \in 0..MaxUnits}

PackIdle ==
    /\ packParts = <<>>
    /\ packLimit = 1
    /\ packOut = <<>>
    /\ packDone = FALSE

\* the script's own state before its first statement
ScriptAtStart ==
    /\ pc = "listBranches"
    /\ bi = 0
    /\ branchToCommits = <<>>
    /\ shaToBranches = <<>>
    /\ commitShas = <<>>
    /\ commitMetas = <<>>
    /\ ci = 0
    /\ rawDiffOf = <<>>
    /\ chunks = <<>>
    /\ chunkI = 0
    /\ partSummaries = <<>>
    /\ perCommitFinal = <<>>
    /\ daily = <<>>
    /\ calls = <<>>
    /\ results = <<>>
    /\ inflight = {}
    /\ postToLarkCalls = 0
    /\ posts = 0
    /\ postOutcome = "none"
    /\ exitCode = -1

RunIdle ==
    /\ remoteBranches = <<>>
    /\ gitLogOf = <<>>
    /\ allShasOrdered = <<>>
    /\ perBranchLimit = 1
    /\ webhookConfigured = FALSE
    /\ ScriptAtStart

InitPack ==
    /\ \E lens \in LenVectors :
          packParts = [k \in 1..Len(lens) |-> UnitText(k, lens[k])]
    /\ packLimit \in Limits
    /\ packOut = <<>>
    /\ packDone = FALSE
    /\ RunIdle

Pack ==
    /\ ~packDone
    /\ packOut' = chunkBySize(packParts, packLimit)
    /\ packDone' = TRUE
    /\ UNCHANGED <<packParts, packLimit>>
    /\ UNCHANGED <<envVars, collVars, redVars, ioVars, pc, exitCode>>

NextPack == Pack

SpecPack == InitPack /\ [][NextPack]_vars

\* ------------------------------------------------------------------------
\* Collector harness: the collector on every bounded branch layout
\* ------------------------------------------------------------------------
Iota(n) == [k \in 1..n |-> k]

\* the increasing sequences over a set of commits: what git log --reverse
\* prints for a ref, a commit being its rank in the global order
IncreasingSeqs(S) == {SortAsc(T) : T \in SUBSET S}

BranchLists == {<<>>, <<1>>, <<1, 2>>}

InitCollect ==
    /\ PackIdle
    /\ remoteBranches \in BranchLists
    /\ gitLogOf \in [Range(remoteBranches) -> IncreasingSeqs(1..MaxCommits)]
    /\ \E T \in SUBSET (1..MaxCommits) :
          /\ \A b \in DOMAIN gitLogOf : Range(gitLogOf[b]) \subseteq T
          /\ allShasOrdered = SortAsc(T)
    /\ perBranchLimit \in 0..MaxCap
    /\ webhookConfigured = FALSE
    /\ ScriptAtStart

NextCollect == ListBranchCommits \/ BuildShaToBranches \/ FilterCommits

SpecCollect == InitCollect /\ [][NextCollect]_vars

\* ------------------------------------------------------------------------
\* A full run
\* ------------------------------------------------------------------------
PER_BRANCH_LIMIT == 2

\* a window of n commits, on every branch or on none of them
Init ==
    /\ PackIdle
    /\ remoteBranches \in BranchLists
    /\ \E n \in 0..MaxRunCommits :
          /\ allShasOrdered = Iota(n)
          /\ \E log \in {<<>>, Iota(n)} :
                gitLogOf = [b \in Range(remoteBranches) |-> log]
    /\ perBranchLimit = PER_BRANCH_LIMIT
    /\ webhookConfigured \in BOOLEAN
    /\ ScriptAtStart

Next ==
    \/ ListBranchCommits \/ BuildShaToBranches \/ FilterCommits
    \/ TakeCommit
    \/ ChunkCall \/ ChunkResolve \/ ChunkReject
    \/ MergeCall \/ MergeResolve \/ MergeReject
    \/ DailyCall \/ DailyResolve \/ DailyReject
    \/ PostPrint \/ PostRequest \/ PostResolve \/ PostReject

Spec == Init /\ [][Next]_vars

\* ------------------------------------------------------------------------
\* Properties of the chunker
\* ------------------------------------------------------------------------
\* the unit a character of a chunk comes from (0 for a separator character)
UnitOf(ch) == ch \div 100

\* the indices of the chunks holding a character of unit k
ChunksOf(k) ==
    {c \in 1..Len(packOut) : \E j \in 1..Len(packOut[c]) : UnitOf(packOut[c][j]) = k}

CeilDiv(a, b) == (a + b - 1) \div b

Oversized == {k \in 1..Len(packParts) : Len(packParts[k]) > packLimit}

EveryChunkWithinLimit == \A c \in 1..Len(packOut) : Len(packOut[c]) <= packLimit

\* unit k occupies exactly CeilDiv(len, limit) consecutive chunks of its own,
\* chunk j of them being characters (j-1)*limit+1 .. j*limit of the unit
SlicedInOrder(k) ==
    LET p == packParts[k]
        n == CeilDiv(Len(p), packLimit)
    IN  /\ Cardinality(ChunksOf(k)) = n
        /\ \E a \in 1..Len(packOut) :
              /\ ChunksOf(k) = a..(a + n - 1)
              /\ \A j \in 1..n :
                    packOut[a + j - 1] =
                        SubSeq(p, (j - 1) * packLimit + 1, Min(j * packLimit, Len(p)))

\* the last chunk of unit k
LastSliceOf(k) == packOut[CHOOSE c \in ChunksOf(k) : \A d \in ChunksOf(k) : d <= c]

\* C8 as stated: every chunk is at most limit long, and a unit longer than
\* limit comes out as slices of exactly limit characters followed by a final
\* slice that is shorter than limit.
C8_AsStated ==
    packDone =>
        /\ EveryChunkWithinLimit
        /\ \A k \in Oversized :
              /\ SlicedInOrder(k)
              /\ Len(LastSliceOf(k)) < packLimit

\* C8 (amended): every chunk is at most limit long, and a unit longer than
\* limit comes out as consecutive chunks of its own, each exactly limit
\* characters, the last one holding the remaining 1..limit characters (it is
\* shorter than limit exactly when limit does not divide the unit's length).
C8_ChunksWithinLimit ==
    packDone =>
        /\ EveryChunkWithinLimit
        /\ \A k \in Oversized :
              /\ SlicedInOrder(k)
              /\ Len(LastSliceOf(k)) =
                    Len(packParts[k]) - (CeilDiv(Len(packParts[k]), packLimit) - 1) * packLimit
              /\ (Len(LastSliceOf(k)) < packLimit) <=> (Len(packParts[k]) % packLimit # 0)

\* the example of the claim: limit 10, one unit of 25 characters, chunks 10, 10, 5
C8_Witness ==
    /\ packDone
    /\ packLimit = 10
    /\ Len(packParts) = 1 /\ Len(packParts[1]) = 25
    /\ [c \in 1..Len(packOut) |-> Len(packOut[c])] = <<10, 10, 5>>

\* the length of the units joined by "\n\n"
JoinedLen(parts) == SumLen(parts) + 2 * (Len(parts) - 1)

\* C9 as stated: a non-empty sequence of units whose lengths sum to at most
\* limit packs into exactly one chunk.
C9_AsStated ==
    (packDone /\ packParts # <<>> /\ SumLen(packParts) <= packLimit)
        => Len(packOut) = 1

\* C9 (amended): a non-empty sequence of units whose lengths, plus two
\* separator characters between each two neighbours, sum to at most limit
\* packs into exactly one chunk, the units joined by blank lines.
C9_FitsInOneChunk ==
    (packDone /\ packParts # <<>> /\ JoinedLen(packParts) <= packLimit)
        => /\ Len(packOut) = 1
           /\ Len(packOut[1]) = JoinedLen(packParts)

\* several units that fit one limit with their separators, packed into one chunk
C9_Witness ==
    /\ packDone
    /\ Len(packParts) >= 2
    /\ JoinedLen(packParts) <= packLimit
    /\ Len(packOut) = 1

\* ------------------------------------------------------------------------
\* Properties of a full run
\* ------------------------------------------------------------------------
\* the collector has finished and found commits
Collected == pc \notin {"listBranches", "filter"} /\ commitShas # <<>>

\* the commits whose diff has been fetched
Fetched == DOMAIN rawDiffOf

\* the diff of the commit is empty or whitespace only
ZeroDiff(sha) == \A j \in 1..Len(rawDiffOf[sha]) : rawDiffOf[sha][j] = NL

\* the header lines of the commit's diff, one per changed file; with hunks of
\* two characters and a limit of DIFF_CHUNK_MAX_CHARS every file is a chunk
FilesOf(sha) == Cardinality({j \in 1..Len(rawDiffOf[sha]) : rawDiffOf[sha][j] = HDR})

CallsWhere(tier, sha, idx) ==
    {k \in 1..Len(calls) :
        calls[k].tier = tier /\ calls[k].sha = sha /\ calls[k].idx = idx}

CallsOfTier(tier) == {k \in 1..Len(calls) : calls[k].tier = tier}

FailedCalls == {k \in DOMAIN results : results[k] = "fail"}

RECURSIVE SumOver(_, _)
SumOver(f, S) ==
    IF S = {} THEN 0
    ELSE LET x == CHOOSE y \in S : TRUE IN f[x] + SumOver(f, S \ {x})

\* the calls a run owes: per commit with a diff one per chunk and one merge,
\* and one daily call
CallsOwed ==
    SumOver([k \in 1..Len(commitShas) |->
                IF ZeroDiff(commitShas[k]) THEN 0 ELSE FilesOf(commitShas[k]) + 1],
            1..Len(commitShas)) + 1

\* C1: in a run that found commits, whatever calls failed, by the time the
\* daily report exists chat() was called exactly once for every chunk of every
\* commit with a diff, exactly once per such commit for the merge and exactly
\* once for the daily report, and nothing else, every call settled; while a
\* call is awaited it is in flight (the run is not waiting on nothing), and
\* the run exits only after postToLark was called.
C1_OneAttemptPerCall ==
    Collected =>
        /\ (pc \in {"post", "awaitPost", "exited"}) =>
              /\ \A n \in 1..Len(commitShas) :
                    LET sha == commitShas[n]
                        total == IF ZeroDiff(sha) THEN 0 ELSE FilesOf(sha)
                    IN  /\ \A j \in 1..total :
                              Cardinality(CallsWhere("chunk", sha, j)) = 1
                        /\ Cardinality({k \in CallsOfTier("chunk") : calls[k].sha = sha})
                              = total
                        /\ Cardinality(CallsWhere("commit", sha, 0))
                              = IF ZeroDiff(sha) THEN 0 ELSE 1
              /\ Cardinality(CallsOfTier("daily")) = 1
              /\ Len(calls) = CallsOwed
              /\ DOMAIN results = 1..Len(calls)
        /\ (pc = "exited") => postToLarkCalls = 1
        /\ (pc \in {"awaitChunk", "awaitMerge", "awaitDaily"}) => inflight # {}

\* a run that reached its exit although a chunk call, a merge call and the
\* daily call failed
C1_Witness ==
    /\ Collected
    /\ pc = "exited"
    /\ postToLarkCalls = 1
    /\ \E a, b, c \in FailedCalls :
          /\ calls[a].tier = "chunk" /\ calls[a].idx = 1 /\ calls[a].total >= 2
          /\ calls[b].tier = "commit"
          /\ calls[c].tier = "daily"

\* ---- the commit-tier fallback ----
LastCall == calls[Len(calls)]

\* the merge call of the commit just finished failed: its fallback summary is
\* the last entry of perCommitFinal and partSummaries still holds its parts
JustFellBack ==
    /\ pc = "nextCommit"
    /\ calls # <<>>
    /\ LastCall.tier = "commit"
    /\ Len(calls) \in FailedCalls
    /\ perCommitFinal # <<>>
    /\ perCommitFinal[Len(perCommitFinal)].meta.sha = LastCall.sha

FallbackSummary == perCommitFinal[Len(perCommitFinal)].summary

IsBlankLine(tok) == tok = Tok("blankLine", 0)
NotBlankLine(tok) == ~IsBlankLine(tok)

\* the chunk summaries with a position label in front of each, joined by
\* blank lines
LabelledConcatenation(parts) ==
    Flatten([k \in 1..Len(parts) |->
                (IF k > 1 THEN BlankLine ELSE <<>>) \o <<Tok("label", k)>> \o parts[k]])

FailureMarkers == {"partFailed", "dailyFailed"}

HasFailureMarker(text) == \E j \in 1..Len(text) : text[j].t \in FailureMarkers

\* C3: whenever a chat() call fails, the text produced in its place (the
\* chunk summary, the commit summary, the daily report) contains a failure
\* marker.
C3_FailureIsMarked ==
    (calls # <<>> /\ Len(calls) \in FailedCalls) =>
        /\ (LastCall.tier = "chunk" /\ pc = "chunkLoop")
              => HasFailureMarker(partSummaries[Len(partSummaries)])
        /\ JustFellBack => HasFailureMarker(FallbackSummary)
        /\ (LastCall.tier = "daily" /\ pc = "post") => HasFailureMarker(daily)

CallKey(c) == <<c.tier, c.sha, c.idx>>

\* the calls of one commit, in the order owed
CallsOwedFor(sha) ==
    IF ZeroDiff(sha) THEN <<>>
    ELSE [j \in 1..FilesOf(sha) |-> <<"chunk", sha, j>>] \o <<<<"commit", sha, 0>>>>

\* the calls of the run, in the order owed, as far as the diffs are known
CallOrderOwed ==
    Flatten([n \in 1..Cardinality(Fetched) |-> CallsOwedFor(commitShas[n])])
        \o <<<<"daily", 0, 0>>>>

IsPrefix(a, b) == Len(a) <= Len(b) /\ a = SubSeq(b, 1, Len(a))

\* position of a commit in the global scan
PosIn(seq, x) == CHOOSE k \in 1..Len(seq) : seq[k] = x

IsItem(tok) == tok.t = "item"

\* the commits listed by a daily prompt, in the order listed
ItemsOf(body) ==
    LET heads == SelectSeq(body, IsItem) IN [k \in 1..Len(heads) |-> heads[k].n]

\* C5: the calls are issued in the order owed: commits, fetched one at a
\* time, in the order of the global scan, per commit the chunk calls by increasing index, then its merge
\* call, and the daily call last; a call is issued only when every earlier
\* call has settled, so at most one is in flight; the daily prompt lists every
\* commit once, in the order of the global scan.
C5_CallOrder ==
    Collected =>
        /\ \A a, b \in 1..Len(commitShas) :
              a < b => PosIn(allShasOrdered, commitShas[a])
                         < PosIn(allShasOrdered, commitShas[b])
        /\ Fetched = {commitShas[n] : n \in 1..Cardinality(Fetched)}
        /\ IsPrefix([k \in 1..Len(calls) |-> CallKey(calls[k])], CallOrderOwed)
        /\ CallsOfTier("daily") # {} => Cardinality(Fetched) = Len(commitShas)
        /\ Cardinality(inflight) <= 1
        /\ inflight \subseteq {Len(calls)}
        /\ DOMAIN results = (1..Len(calls)) \ inflight
        /\ \A k \in CallsOfTier("chunk") : calls[k].total = FilesOf(calls[k].sha)
        /\ \A k \in CallsOfTier("daily") : ItemsOf(calls[k].body) = commitShas

\* two commits, the first of two chunks, and the daily call issued
C5_Witness ==
    /\ Collected
    /\ Len(commitShas) >= 2
    /\ CallsOfTier("daily") # {}
    /\ FilesOf(commitShas[1]) >= 2
    /\ ~ZeroDiff(commitShas[2])

\* ---- commits without a diff ----
IsRuleLine(tok) == tok = Tok("ruleLine", 0)

\* the entries of a daily prompt: its body cut at the rule lines
RECURSIVE EntriesOf(_, _)
EntriesOf(body, cur) ==
    IF body = <<>> THEN <<cur>>
    ELSE IF IsRuleLine(Head(body))
         THEN <<cur>> \o EntriesOf(Tail(body), <<>>)
         ELSE EntriesOf(Tail(body), Append(cur, Head(body)))

\* C6: a commit whose diff is empty or whitespace only gets no chunk call and
\* no merge call; its summary is the fixed placeholder, and the daily prompt
\* carries it at the commit's position in the order of the global scan.
C6_ZeroDiffCommit ==
    Collected =>
        \A n \in 1..Len(commitShas) :
            (commitShas[n] \in Fetched /\ ZeroDiff(commitShas[n])) =>
                /\ \A k \in 1..Len(calls) :
                      calls[k].tier \in {"chunk", "commit"} => calls[k].sha # commitShas[n]
                /\ n <= Len(perCommitFinal) =>
                      /\ perCommitFinal[n].meta.sha = commitShas[n]
                      /\ perCommitFinal[n].summary = NoChangeText
                /\ \A k \in CallsOfTier("daily") :
                      LET entries == EntriesOf(calls[k].body, <<>>)
                      IN  /\ Len(entries) = Len(commitShas)
                          /\ entries[n] = <<Tok("item", commitShas[n])>> \o NoChangeText

\* a daily call whose second commit has a whitespace-only diff and whose
\* first commit has a diff
C6_Witness ==
    /\ Collected
    /\ Len(commitShas) >= 2
    /\ CallsOfTier("daily") # {}
    /\ ~ZeroDiff(commitShas[1])
    /\ rawDiffOf[commitShas[2]] = <<NL>>

\* ---- no commits ----
NoCommitsInWindow == \A b \in Range(remoteBranches) : gitLogOf[b] = <<>>

\* C7: when there is no branch, or no branch has a commit in the window, the
\* run makes no chat() call and no delivery attempt, and it ends right after
\* the collector with exit code 0.
C7_NoCommitsNoCalls ==
    NoCommitsInWindow =>
        /\ calls = <<>> /\ inflight = {}
        /\ postToLarkCalls = 0 /\ posts = 0
        /\ pc \in {"listBranches", "filter", "exited"}
        /\ (pc = "exited") => (exitCode = 0 /\ commitShas = <<>> /\ perCommitFinal = <<>>)
        /\ (pc # "exited") => exitCode = -1

\* a run over two branches without commits, at its exit
C7_Witness ==
    /\ NoCommitsInWindow
    /\ Len(remoteBranches) = 2
    /\ pc = "exited"
    /\ exitCode = 0

\* ---- the per-branch cap ----
\* the last n entries of a list
LastN(list, n) == SubSeq(list, Len(list) - n + 1, Len(list))

\* C10: the commits kept for a branch are at most PER_BRANCH_LIMIT, and for a
\* branch with more commits in the window they are exactly the
\* PER_BRANCH_LIMIT most recent ones, oldest first.
C10_PerBranchCap ==
    \A b \in DOMAIN branchToCommits :
        /\ Len(branchToCommits[b]) <= perBranchLimit
        /\ Len(gitLogOf[b]) > perBranchLimit =>
              branchToCommits[b] = LastN(gitLogOf[b], perBranchLimit)

\* ---- attribution ----
\* the collector has finished
CollectorDone == pc \notin {"listBranches", "filter"}

\* the tracked branches whose truncated sequence holds the commit
HoldersOf(sha) ==
    {b \in Range(remoteBranches) : sha \in Range(branchToCommits[b])}

StrictlyIncreasing(seq) == \A a, b \in 1..Len(seq) : a < b => seq[a] < seq[b]

\* C11: the final commit sequence has no duplicates and keeps the order of
\* the global scan; every commit in it is held by the truncated sequence of
\* at least one tracked branch, so a commit of the scan that no truncated
\* sequence holds is not in it; there is one CommitRecord per commit, in the
\* same order, and its branches are exactly those branches, none missing or
\* repeated, in sorted order.
C11_NoOrphanCommits ==
    CollectorDone =>
        /\ \A a, b \in 1..Len(commitShas) : a # b => commitShas[a] # commitShas[b]
        /\ Range(commitShas) \subseteq Range(allShasOrdered)
        /\ \A a, b \in 1..Len(commitShas) :
              a < b => PosIn(allShasOrdered, commitShas[a])
                         < PosIn(allShasOrdered, commitShas[b])
        /\ \A sha \in Range(commitShas) : HoldersOf(sha) # {}
        /\ \A sha \in Range(allShasOrdered) :
              HoldersOf(sha) = {} => sha \notin Range(commitShas)
        /\ Len(commitMetas) = Len(commitShas)
        /\ \A k \in 1..Len(commitMetas) :
              /\ commitMetas[k].sha = commitShas[k]
              /\ commitMetas[k].branches # <<>>
              /\ StrictlyIncreasing(commitMetas[k].branches)
              /\ Range(commitMetas[k].branches) = HoldersOf(commitShas[k])

\* the scan holds a commit of no branch and a commit every branch lost to
\* the cap; the commit that is kept sits on two branches
C11_Witness ==
    /\ CollectorDone
    /\ Len(remoteBranches) = 2
    /\ \E sha \in Range(allShasOrdered) :
          \A b \in Range(remoteBranches) : sha \notin Range(gitLogOf[b])
    /\ \E sha \in Range(allShasOrdered) :
          /\ \E b \in Range(remoteBranches) : sha \in Range(gitLogOf[b])
          /\ HoldersOf(sha) = {}
    /\ \E k \in 1..Len(commitMetas) : Len(commitMetas[k].branches) = 2

====
